---- MODULE Spec2Model ----
(***************************************************************************)
(* Model of the grid resource / QoS simulator of src/app.py: the entity    *)
(* generators, the four scheduling algorithms, the evaluator and the       *)
(* aggregation of the simulate block.                                      *)
(*                                                                         *)
(* Number representation.  Reliability and Cost are kept in hundredths     *)
(* (0.85 is 85, 3.0 is 300), Latency and QoS Score in thousandths,         *)
(* Throughput and Exec Time in hundredths.  The predictive score           *)
(* Bandwidth * Reliability - Load is kept times 100.  The code works on    *)
(* binary floats; the model works on the exact decimal values.             *)
(***************************************************************************)
EXTENDS Integers, Sequences, FiniteSets, TLC

VARIABLES
    entry,          \* who runs the code: "app" (the simulate block), "sched"
                    \* (a scheduler called on supplied nodes and tasks), "eval"
                    \* (evaluate called on supplied assignments)
    pc,             \* position in the code
    algorithm,      \* the selected scheduling algorithm
    num_nodes,      \* sidebar value
    num_tasks,      \* sidebar value
    nodes,          \* the node list (dicts mutated in place)
    tasks,          \* the task list
    nodes_before,   \* the node list as it was when scheduling started
    tasks_sorted,   \* shortest_job_first's sorted copy of tasks
    nodes_sorted,   \* sorted copy of nodes: indices into nodes (the copies
                    \* alias the same dicts)
    i,              \* loop index over tasks / assignments (0-based)
    j,              \* predictive_qos inner loop index over nodes (0-based)
    assignments,    \* the scheduler's local list
    assign,         \* what the scheduler returned (None until it returns)
    results,        \* evaluate's local list
    returned,       \* what evaluate returned (None until it returns)
    summary,        \* the aggregation's metrics (None where not computed)
    err,            \* the exception that ended the run ("none" if none)
    draw,           \* the last random.choice results of predictive_qos
    perturbs,       \* per node: how many times predictive_qos perturbed it
    fluct           \* number of random draws so far that were not the
                    \* reference outcome (delta 0, lowest latency factor)

vars == <<entry, pc, algorithm, num_nodes, num_tasks, nodes, tasks, nodes_before,
          tasks_sorted, nodes_sorted, i, j, assignments, assign, results,
          returned, summary, err, draw, perturbs, fluct>>

----------------------------------------------------------------------------
(* Bounds of the model *)

\* deterministic schedulers called on supplied inputs
MaxNodes == 3
MaxTasks == 4
\* predictive_qos called on supplied inputs
MaxQoSNodes == 2
MaxQoSTasks == 2
\* the simulate block
MaxAppNodes == 2
MaxAppTasks == 2
\* evaluate called on supplied lists: nodes and tasks, assignments
MaxEvalEntities == 1
MaxAssignments == 2
\* random draws of one run (the deltas of predictive_qos, the latency factors
\* of evaluate) that differ from the reference outcome: a delta other than
\* 0, a latency factor other than the lowest
MaxFluctuations == 1

----------------------------------------------------------------------------
(* Values *)

\* an unset Python name / a value: the empty and the one-element sequence
None == <<>>

Some(v) == <<v>>

IsSome(o) == o # <<>>

Get(o) == o[1]

Algorithms == {"Round Robin", "Shortest Job First", "Economic", "Predictive QoS-Aware"}

\* a value the selectbox does not offer
Unrecognized == "Unrecognized"

NodeId(k) == <<"Node", k>>

TaskId(k) == <<"Task", k>>

\* ranges of create_nodes / create_tasks
CPURange == 2..10
MemoryRange == 8..32
BandwidthRange == 50..150
ReliabilityRange == 85..99
CostRange == 50..300
WorkloadRange == 3..10
SLARange == 3..9
Priorities == {"Low", "Medium", "High"}

\* random.choice([-1, 0, 1]), random.choice([-10, 0, 10]), random.choice([-0.01, 0, 0.01])
CPUDeltas == {-1, 0, 1}
BandwidthDeltas == {-10, 0, 10}
ReliabilityDeltas == {-1, 0, 1}

\* random.uniform(0.1, 1.5) in thousandths: the two ends of the interval
LatencyFactors == {100, 1500}

Min(a, b) == IF a <= b THEN a ELSE b

Max(a, b) == IF a >= b THEN a ELSE b

\* round(num / den) to the nearest integer, halves to even (Python's round)
RoundDiv(num, den) ==
    LET q == num \div den
        r == num % den
    IN  IF 2 * r < den THEN q
        ELSE IF 2 * r > den THEN q + 1
        ELSE IF q % 2 = 0 THEN q ELSE q + 1

RECURSIVE SumSeq(_)
SumSeq(s) == IF s = <<>> THEN 0 ELSE Head(s) + SumSeq(Tail(s))

\* all lists of length n over the set S
Lists(n, S) == [1..n -> S]

----------------------------------------------------------------------------
(* Entities *)

Node(k, p) ==
    [id |-> NodeId(k), CPU |-> p.CPU, Memory |-> p.Memory, Bandwidth |-> p.Bandwidth,
     Reliability |-> p.Reliability, Cost |-> p.Cost, Load |-> p.Load]

Task(k, p) ==
    [id |-> TaskId(k), Workload |-> p.Workload, Priority |-> p.Priority,
     SLA_Time |-> p.SLA_Time]

\* the outcomes of the random draws of create_nodes the model explores: the
\* low and the high end of every range, crossed
NodeSamples ==
    { [CPU |-> 2, Memory |-> 8, Bandwidth |-> 50, Reliability |-> 99, Cost |-> 300],
      [CPU |-> 10, Memory |-> 32, Bandwidth |-> 150, Reliability |-> 85, Cost |-> 50] }

\* the outcomes of the random draws of create_tasks the model explores
TaskSamples ==
    { [Workload |-> 3, Priority |-> "Low", SLA_Time |-> 3],
      [Workload |-> 10, Priority |-> "High", SLA_Time |-> 9] }

\* mutant of create_nodes: the ids are numbered from 0 (f"Node-{i}")
create_nodesFromZero(n) ==
    { [k \in 1..n |-> Node(k - 1, [CPU |-> f[k].CPU, Memory |-> f[k].Memory,
                                   Bandwidth |-> f[k].Bandwidth,
                                   Reliability |-> f[k].Reliability,
                                   Cost |-> f[k].Cost, Load |-> 0])] :
      f \in Lists(n, NodeSamples) }

\* create_nodes(n): every list the draws can produce; Load is 0
create_nodes(n) ==
    { [k \in 1..n |-> Node(k, [CPU |-> f[k].CPU, Memory |-> f[k].Memory,
                               Bandwidth |-> f[k].Bandwidth,
                               Reliability |-> f[k].Reliability,
                               Cost |-> f[k].Cost, Load |-> 0])] :
      f \in Lists(n, NodeSamples) }

\* create_tasks(n): every list the draws can produce
create_tasks(n) ==
    { [k \in 1..n |-> Task(k, f[k])] : f \in Lists(n, TaskSamples) }

\* node lists a caller hands to round_robin, shortest_job_first and economic:
\* costs with a tie and in an order other than that of the loads, loads with
\* a tie and not all zero
SuppliedNodes ==
    { [CPU |-> 2, Memory |-> 8, Bandwidth |-> 50, Reliability |-> 99, Cost |-> 300, Load |-> 0],
      [CPU |-> 10, Memory |-> 32, Bandwidth |-> 150, Reliability |-> 85, Cost |-> 50, Load |-> 5],
      [CPU |-> 5, Memory |-> 16, Bandwidth |-> 100, Reliability |-> 90, Cost |-> 150, Load |-> 0],
      [CPU |-> 5, Memory |-> 16, Bandwidth |-> 100, Reliability |-> 90, Cost |-> 50, Load |-> 2] }

\* node lists a caller hands to predictive_qos: a generated node at the upper
\* clamp of Reliability, and a node as earlier perturbations leave it, at the
\* lower clamps of CPU, Bandwidth and Reliability
SuppliedQoSNodes ==
    { [CPU |-> 2, Memory |-> 8, Bandwidth |-> 50, Reliability |-> 99, Cost |-> 300, Load |-> 0],
      [CPU |-> 1, Memory |-> 8, Bandwidth |-> 10, Reliability |-> 70, Cost |-> 50, Load |-> 0] }

NodeLists(n, S) == { [k \in 1..n |-> Node(k, f[k])] : f \in Lists(n, S) }

----------------------------------------------------------------------------
(* sorted(): a stable sort, given as the permutation of 1..n it applies *)

\* position (1-based) of element k after a stable ascending sort by keys[k]
AscendingPos(keys, k) ==
    Cardinality({m \in 1..Len(keys) : keys[m] < keys[k]})
    + Cardinality({m \in 1..(k - 1) : keys[m] = keys[k]}) + 1

\* position of element k after a stable descending sort (reverse=True keeps
\* the original order of equal elements)
DescendingPos(keys, k) ==
    Cardinality({m \in 1..Len(keys) : keys[m] > keys[k]})
    + Cardinality({m \in 1..(k - 1) : keys[m] = keys[k]}) + 1

\* sorted(xs, key=...): the indices of xs in sorted order, keys[k] the key of xs[k]
SortedAscending(keys) ==
    [p \in 1..Len(keys) |-> CHOOSE k \in 1..Len(keys) : AscendingPos(keys, k) = p]

\* sorted(xs, key=..., reverse=True): the indices of xs in sorted order
SortedDescending(keys) ==
    [p \in 1..Len(keys) |-> CHOOSE k \in 1..Len(keys) : DescendingPos(keys, k) = p]

----------------------------------------------------------------------------
(* The scheduling algorithms' expressions *)

\* mutant of Place: the load is overwritten (=) instead of added to (+=)
PlaceOverwriting(ns, k, task) == [ns EXCEPT ![k].Load = task.Workload]

\* node["Load"] += task["Workload"] on the k-th dict of the list
Place(ns, k, task) == [ns EXCEPT ![k].Load = @ + task.Workload]

\* mutant of Assigned: the list is rebound instead of appended to
AssignedRebinding(as, task, node) == <<<<task.id, node.id>>>>

\* assignments.append((task["id"], node["id"]))
Assigned(as, task, node) == Append(as, <<task.id, node.id>>)

\* mutant of RoundRobinPick: the least loaded node is taken
RoundRobinPickLeastLoaded(ns, idx) ==
    CHOOSE k \in 1..Len(ns) : \A m \in 1..Len(ns) :
        ns[k].Load < ns[m].Load \/ (ns[k].Load = ns[m].Load /\ k <= m)

\* nodes[i % len(nodes)] (as a 1-based index into nodes)
RoundRobinPick(ns, idx) == (idx % Len(ns)) + 1

\* sorted(tasks, key=lambda x: x["Workload"])
TasksByWorkload(ts) ==
    LET order == SortedAscending([m \in 1..Len(ts) |-> ts[m].Workload])
    IN  [p \in 1..Len(ts) |-> ts[order[p]]]

\* sorted(nodes, key=lambda x: x["Load"])
NodesByLoad(ns) == SortedAscending([m \in 1..Len(ns) |-> ns[m].Load])

\* mutant of NodesByCost: the sort is descending
NodesByCostDescending(ns) == SortedDescending([m \in 1..Len(ns) |-> ns[m].Cost])

\* sorted(nodes, key=lambda x: x["Cost"])
NodesByCost(ns) == SortedAscending([m \in 1..Len(ns) |-> ns[m].Cost])

\* mutant of SortedPick: every task goes to the first node of the sorted list
SortedPickFirst(order, ns, idx) == order[1]

\* mutant of SortedPick: the nodes are sorted again by their current load at
\* every placement
SortedPickRebalancing(order, ns, idx) ==
    SortedAscending([m \in 1..Len(ns) |-> ns[m].Load])[(idx % Len(ns)) + 1]

\* nodes_sorted[i % len(nodes)] (as a 1-based index into nodes)
SortedPick(order, ns, idx) == order[(idx % Len(ns)) + 1]

\* the list round_robin(nodes, tasks) returns: task p (1-based) with the
\* node at index (p - 1) % len(nodes)
round_robin(ns, ts) ==
    [p \in 1..Len(ts) |-> <<ts[p].id, ns[RoundRobinPick(ns, p - 1)].id>>]

\* the list shortest_job_first(nodes, tasks) returns
shortest_job_first(ns, ts) ==
    LET tasks_by_workload == TasksByWorkload(ts)
        order == NodesByLoad(ns)
    IN  [p \in 1..Len(ts) |->
           <<tasks_by_workload[p].id, ns[SortedPick(order, ns, p - 1)].id>>]

\* the list economic(nodes, tasks) returns
economic(ns, ts) ==
    LET order == NodesByCost(ns)
    IN  [p \in 1..Len(ts) |-> <<ts[p].id, ns[SortedPick(order, ns, p - 1)].id>>]

\* mutant of Perturbed: the deltas are added without the clamps
PerturbedUnclamped(node, d) ==
    [node EXCEPT !.CPU = @ + d.cpu,
                 !.Bandwidth = @ + d.bw,
                 !.Reliability = @ + d.rel]

\* the three perturbation statements of predictive_qos
Perturbed(node, d) ==
    [node EXCEPT !.CPU = Max(1, @ + d.cpu),
                 !.Bandwidth = Max(10, @ + d.bw),
                 !.Reliability = Max(70, Min(99, @ + d.rel))]

\* the node the inner loop of predictive_qos visits at index jj
PerturbTarget(jj) == jj + 1

\* x["Bandwidth"]*x["Reliability"] - x["Load"], times 100
Score(node) == node.Bandwidth * node.Reliability - 100 * node.Load

\* mutant of BestNode: among equal scores the last node is taken
BestNodeLastOnTie(ns) ==
    CHOOSE k \in 1..Len(ns) : \A m \in 1..Len(ns) :
        Score(ns[k]) > Score(ns[m]) \/ (Score(ns[k]) = Score(ns[m]) /\ k >= m)

\* scored = sorted(nodes, key=score, reverse=True); scored[0]
BestNode(ns) == SortedDescending([m \in 1..Len(ns) |-> Score(ns[m])])[1]

\* the draws of one perturbation
Draws == [cpu : CPUDeltas, bw : BandwidthDeltas, rel : ReliabilityDeltas]

\* how many of the draws are not 0
NonZero(d) ==
    (IF d.cpu # 0 THEN 1 ELSE 0) + (IF d.bw # 0 THEN 1 ELSE 0)
    + (IF d.rel # 0 THEN 1 ELSE 0)

----------------------------------------------------------------------------
(* The scheduling algorithms' steps *)

config == <<entry, algorithm, num_nodes, num_tasks>>

evaluation == <<results, returned, summary>>

\* an exception leaves the function and ends the run
Raise(e) == pc' = "error" /\ err' = e

\* if algorithm == "Round Robin": assign = round_robin(nodes, tasks)
CallRoundRobin ==
    /\ pc = "dispatch"
    /\ algorithm = "Round Robin"
    /\ pc' = "rr_loop"
    /\ assignments' = <<>>
    /\ i' = 0
    /\ UNCHANGED <<config, nodes, tasks, nodes_before, tasks_sorted, nodes_sorted, j,
                   assign, evaluation, err, draw, perturbs, fluct>>

\* mutant of RoundRobinStep: with no nodes the loop ends and the list built
\* so far is returned
RoundRobinStepGuarded ==
    /\ pc = "rr_loop"
    /\ i < Len(tasks)
    /\ IF Len(nodes) = 0
       THEN /\ assign' = Some(assignments)
            /\ pc' = "scheduled"
            /\ UNCHANGED <<nodes, assignments, i, err>>
       ELSE LET k == RoundRobinPick(nodes, i)
                task == tasks[i + 1]
            IN  /\ nodes' = Place(nodes, k, task)
                /\ assignments' = Assigned(assignments, task, nodes[k])
                /\ i' = i + 1
                /\ UNCHANGED <<pc, err, assign>>
    /\ UNCHANGED <<config, tasks, nodes_before, tasks_sorted, nodes_sorted, j,
                   evaluation, draw, perturbs, fluct>>

\* one iteration of round_robin's loop
RoundRobinStep ==
    /\ pc = "rr_loop"
    /\ i < Len(tasks)
    /\ IF Len(nodes) = 0
       THEN /\ Raise("ZeroDivisionError")
            /\ UNCHANGED <<nodes, assignments, i>>
       ELSE LET k == RoundRobinPick(nodes, i)
                task == tasks[i + 1]
            IN  /\ nodes' = Place(nodes, k, task)
                /\ assignments' = Assigned(assignments, task, nodes[k])
                /\ i' = i + 1
                /\ UNCHANGED <<pc, err>>
    /\ UNCHANGED <<config, tasks, nodes_before, tasks_sorted, nodes_sorted, j, assign,
                   evaluation, draw, perturbs, fluct>>

\* return assignments
SchedulerReturn(at) ==
    /\ pc = at
    /\ i = Len(tasks)
    /\ assign' = Some(assignments)
    /\ pc' = "scheduled"
    /\ UNCHANGED <<config, nodes, tasks, nodes_before, tasks_sorted, nodes_sorted, i, j,
                   assignments, evaluation, err, draw, perturbs, fluct>>

RoundRobinReturn == SchedulerReturn("rr_loop")

\* mutant of CallShortestJobFirst: the two lists are sorted in place
\* (list.sort) instead of copied (sorted)
CallShortestJobFirstInPlace ==
    /\ pc = "dispatch"
    /\ algorithm = "Shortest Job First"
    /\ tasks' = TasksByWorkload(tasks)
    /\ nodes' = [p \in 1..Len(nodes) |-> nodes[NodesByLoad(nodes)[p]]]
    /\ tasks_sorted' = tasks'
    /\ nodes_sorted' = [p \in 1..Len(nodes) |-> p]
    /\ pc' = "sjf_loop"
    /\ assignments' = <<>>
    /\ i' = 0
    /\ UNCHANGED <<config, nodes_before, j, assign, evaluation, err,
                   draw, perturbs, fluct>>

\* elif algorithm == "Shortest Job First": the two sorts of shortest_job_first
CallShortestJobFirst ==
    /\ pc = "dispatch"
    /\ algorithm = "Shortest Job First"
    /\ tasks_sorted' = TasksByWorkload(tasks)
    /\ nodes_sorted' = NodesByLoad(nodes)
    /\ pc' = "sjf_loop"
    /\ assignments' = <<>>
    /\ i' = 0
    /\ UNCHANGED <<config, nodes, tasks, nodes_before, j, assign, evaluation, err,
                   draw, perturbs, fluct>>

\* one iteration of shortest_job_first's loop
ShortestJobFirstStep ==
    /\ pc = "sjf_loop"
    /\ i < Len(tasks_sorted)
    /\ IF Len(nodes) = 0
       THEN /\ Raise("ZeroDivisionError")
            /\ UNCHANGED <<nodes, assignments, i>>
       ELSE LET k == SortedPick(nodes_sorted, nodes, i)
                task == tasks_sorted[i + 1]
            IN  /\ nodes' = Place(nodes, k, task)
                /\ assignments' = Assigned(assignments, task, nodes[k])
                /\ i' = i + 1
                /\ UNCHANGED <<pc, err>>
    /\ UNCHANGED <<config, tasks, nodes_before, tasks_sorted, nodes_sorted, j, assign,
                   evaluation, draw, perturbs, fluct>>

ShortestJobFirstReturn == SchedulerReturn("sjf_loop")

\* elif algorithm == "Economic": the sort of economic
CallEconomic ==
    /\ pc = "dispatch"
    /\ algorithm = "Economic"
    /\ nodes_sorted' = NodesByCost(nodes)
    /\ pc' = "eco_loop"
    /\ assignments' = <<>>
    /\ i' = 0
    /\ UNCHANGED <<config, nodes, tasks, nodes_before, tasks_sorted, j, assign,
                   evaluation, err, draw, perturbs, fluct>>

\* one iteration of economic's loop
EconomicStep ==
    /\ pc = "eco_loop"
    /\ i < Len(tasks)
    /\ IF Len(nodes) = 0
       THEN /\ Raise("ZeroDivisionError")
            /\ UNCHANGED <<nodes, assignments, i>>
       ELSE LET k == SortedPick(nodes_sorted, nodes, i)
                task == tasks[i + 1]
            IN  /\ nodes' = Place(nodes, k, task)
                /\ assignments' = Assigned(assignments, task, nodes[k])
                /\ i' = i + 1
                /\ UNCHANGED <<pc, err>>
    /\ UNCHANGED <<config, tasks, nodes_before, tasks_sorted, nodes_sorted, j, assign,
                   evaluation, draw, perturbs, fluct>>

EconomicReturn == SchedulerReturn("eco_loop")

\* else: assign = predictive_qos(nodes, tasks)
CallPredictiveQoS ==
    /\ pc = "dispatch"
    /\ algorithm \notin {"Round Robin", "Shortest Job First", "Economic"}
    /\ pc' = "qos_loop"
    /\ assignments' = <<>>
    /\ i' = 0
    /\ j' = 0
    /\ UNCHANGED <<config, nodes, tasks, nodes_before, tasks_sorted, nodes_sorted,
                   assign, evaluation, err, draw, perturbs, fluct>>

\* mutant of PredictivePerturb: the nodes are perturbed before the loop over
\* the tasks tests whether a task is left
PredictivePerturbUntested ==
    /\ pc = "qos_loop"
    /\ i <= Len(tasks)
    /\ j < Len(nodes)
    /\ \E d \in Draws :
        /\ fluct + NonZero(d) <= MaxFluctuations
        /\ LET k == PerturbTarget(j)
           IN  /\ nodes' = [nodes EXCEPT ![k] = Perturbed(@, d)]
               /\ perturbs' = [perturbs EXCEPT ![k] = @ + 1]
        /\ draw' = Some(d)
        /\ fluct' = fluct + NonZero(d)
    /\ j' = j + 1
    /\ UNCHANGED <<config, pc, tasks, nodes_before, tasks_sorted, nodes_sorted, i,
                   assignments, assign, evaluation, err>>

\* one iteration of predictive_qos's inner loop: the perturbation of one node
PredictivePerturb ==
    /\ pc = "qos_loop"
    /\ i < Len(tasks)
    /\ j < Len(nodes)
    /\ \E d \in Draws :
        /\ fluct + NonZero(d) <= MaxFluctuations
        /\ LET k == PerturbTarget(j)
           IN  /\ nodes' = [nodes EXCEPT ![k] = Perturbed(@, d)]
               /\ perturbs' = [perturbs EXCEPT ![k] = @ + 1]
        /\ draw' = Some(d)
        /\ fluct' = fluct + NonZero(d)
    /\ j' = j + 1
    /\ UNCHANGED <<config, pc, tasks, nodes_before, tasks_sorted, nodes_sorted, i,
                   assignments, assign, evaluation, err>>

\* the rest of an iteration of predictive_qos's outer loop: score and place
PredictivePick ==
    /\ pc = "qos_loop"
    /\ i < Len(tasks)
    /\ j = Len(nodes)
    /\ IF Len(nodes) = 0
       THEN /\ Raise("IndexError")
            /\ UNCHANGED <<nodes, assignments, i, j>>
       ELSE LET k == BestNode(nodes)
                task == tasks[i + 1]
            IN  /\ nodes' = Place(nodes, k, task)
                /\ assignments' = Assigned(assignments, task, nodes[k])
                /\ i' = i + 1
                /\ j' = 0
                /\ UNCHANGED <<pc, err>>
    /\ UNCHANGED <<config, tasks, nodes_before, tasks_sorted, nodes_sorted, assign,
                   evaluation, draw, perturbs, fluct>>

PredictiveReturn == SchedulerReturn("qos_loop")

Schedule ==
    \/ CallRoundRobin \/ RoundRobinStep \/ RoundRobinReturn
    \/ CallShortestJobFirst \/ ShortestJobFirstStep \/ ShortestJobFirstReturn
    \/ CallEconomic \/ EconomicStep \/ EconomicReturn
    \/ CallPredictiveQoS \/ PredictivePerturb \/ PredictivePick \/ PredictiveReturn

----------------------------------------------------------------------------
(* evaluate *)

\* next(x for x in xs if x["id"] == id): the index of the first match, 0 when
\* the generator is exhausted (StopIteration)
FirstMatch(xs, id) ==
    IF \E k \in 1..Len(xs) : xs[k].id = id
    THEN CHOOSE k \in 1..Len(xs) :
            /\ xs[k].id = id
            /\ \A m \in 1..(k - 1) : xs[m].id # id
    ELSE 0

\* mutant of SLAMet: a task that takes exactly its SLA time counts as late
SLAMetStrict(task, node) == task.Workload < task.SLA_Time * node.CPU

\* exec_time <= task["SLA_Time"], with exec_time = Workload / CPU
SLAMet(task, node) == task.Workload <= task.SLA_Time * node.CPU

\* mutant of Record: the reliability is the one the node had before the
\* scheduler ran
RecordAtStart(task_id, node_id, task, node, u) ==
    LET latency == RoundDiv(u * 10, node.Bandwidth)
        throughput == RoundDiv(node.Bandwidth * 100, task.Workload + 1)
    IN  [Task |-> task_id,
         Node |-> node_id,
         Latency |-> latency,
         Throughput |-> throughput,
         Reliability |-> nodes_before[FirstMatch(nodes_before, node_id)].Reliability,
         QoS |-> RoundDiv(throughput * node.Reliability * 100, 1000 + latency),
         ExecTime |-> RoundDiv(task.Workload * 100, node.CPU),
         SLATime |-> task.SLA_Time,
         SLAMet |-> SLAMet(task, node)]

\* the dict evaluate appends for one assignment; u is the random.uniform draw
Record(task_id, node_id, task, node, u) ==
    LET latency == RoundDiv(u * 10, node.Bandwidth)
        throughput == RoundDiv(node.Bandwidth * 100, task.Workload + 1)
    IN  [Task |-> task_id,
         Node |-> node_id,
         Latency |-> latency,
         Throughput |-> throughput,
         Reliability |-> node.Reliability,
         QoS |-> RoundDiv(throughput * node.Reliability * 100, 1000 + latency),
         ExecTime |-> RoundDiv(task.Workload * 100, node.CPU),
         SLATime |-> task.SLA_Time,
         SLAMet |-> SLAMet(task, node)]

scheduling == <<nodes_before, tasks_sorted, nodes_sorted, j, assignments, assign,
                draw, perturbs>>

\* results = evaluate(assign, tasks, nodes)
CallEvaluate ==
    /\ pc = "scheduled"
    /\ entry = "app"
    /\ pc' = "eval_loop"
    /\ results' = <<>>
    /\ i' = 0
    /\ UNCHANGED <<config, nodes, tasks, scheduling, returned, summary, err, fluct>>

\* mutant of EvaluateStep: an assignment whose ids do not resolve is skipped
EvaluateStepSkipping ==
    /\ pc = "eval_loop"
    /\ i < Len(Get(assign))
    /\ LET task_id == Get(assign)[i + 1][1]
           node_id == Get(assign)[i + 1][2]
           n == FirstMatch(nodes, node_id)
           t == FirstMatch(tasks, task_id)
       IN  IF n = 0 \/ t = 0
           THEN /\ i' = i + 1
                /\ UNCHANGED <<results, pc, err, fluct>>
           ELSE \E u \in LatencyFactors :
                   LET cost == IF u = 100 THEN 0 ELSE 1
                   IN  /\ fluct + cost <= MaxFluctuations
                       /\ fluct' = fluct + cost
                       /\ results' = Append(results,
                                            Record(task_id, node_id, tasks[t], nodes[n], u))
                       /\ i' = i + 1
                       /\ UNCHANGED <<pc, err>>
    /\ UNCHANGED <<config, nodes, tasks, scheduling, returned, summary>>

\* mutant of EvaluateStep: the record is put in front of the list
\* (results.insert(0, ...)) instead of appended
EvaluateStepPrepending ==
    /\ pc = "eval_loop"
    /\ i < Len(Get(assign))
    /\ LET task_id == Get(assign)[i + 1][1]
           node_id == Get(assign)[i + 1][2]
           n == FirstMatch(nodes, node_id)
           t == FirstMatch(tasks, task_id)
       IN  IF n = 0 \/ t = 0
           THEN /\ Raise("StopIteration")
                /\ UNCHANGED <<results, i, fluct>>
           ELSE \E u \in LatencyFactors :
                   LET cost == IF u = 100 THEN 0 ELSE 1
                   IN  /\ fluct + cost <= MaxFluctuations
                       /\ fluct' = fluct + cost
                       /\ results' = <<Record(task_id, node_id, tasks[t], nodes[n], u)>>
                                        \o results
                       /\ i' = i + 1
                       /\ UNCHANGED <<pc, err>>
    /\ UNCHANGED <<config, nodes, tasks, scheduling, returned, summary>>

\* one iteration of evaluate's loop
EvaluateStep ==
    /\ pc = "eval_loop"
    /\ i < Len(Get(assign))
    /\ LET task_id == Get(assign)[i + 1][1]
           node_id == Get(assign)[i + 1][2]
           n == FirstMatch(nodes, node_id)
           t == FirstMatch(tasks, task_id)
       IN  IF n = 0 \/ t = 0
           THEN /\ Raise("StopIteration")
                /\ UNCHANGED <<results, i, fluct>>
           ELSE \E u \in LatencyFactors :
                   LET cost == IF u = 100 THEN 0 ELSE 1
                   IN  /\ fluct + cost <= MaxFluctuations
                       /\ fluct' = fluct + cost
                       /\ results' = Append(results,
                                            Record(task_id, node_id, tasks[t], nodes[n], u))
                       /\ i' = i + 1
                       /\ UNCHANGED <<pc, err>>
    /\ UNCHANGED <<config, nodes, tasks, scheduling, returned, summary>>

\* return results
EvaluateReturn ==
    /\ pc = "eval_loop"
    /\ i = Len(Get(assign))
    /\ returned' = Some(results)
    /\ pc' = IF entry = "app" THEN "aggregate" ELSE "evaluated"
    /\ UNCHANGED <<config, nodes, tasks, scheduling, i, results, summary, err, fluct>>

----------------------------------------------------------------------------
(* The simulate block *)

NoSummary == [sla_success |-> None, avg_qos |-> None, sla_rate |-> None,
              total_cost |-> None]

\* sum(1 for r in results if r["SLA Met"] == ...)
SLASuccess(rs) == Cardinality({k \in 1..Len(rs) : rs[k].SLAMet})

\* sum(r["QoS Score"] for r in results)
QoSSum(rs) == SumSeq([k \in 1..Len(rs) |-> rs[k].QoS])

\* sum(next(n for n in nodes if n["id"] == r["Node"])["Cost"] for r in results)
TotalCost(rs, ns) == SumSeq([k \in 1..Len(rs) |-> ns[FirstMatch(ns, rs[k].Node)].Cost])

\* nodes = create_nodes(num_nodes); tasks = create_tasks(num_tasks)
Simulate ==
    /\ pc = "start"
    /\ nodes' \in create_nodes(num_nodes)
    /\ tasks' \in create_tasks(num_tasks)
    /\ nodes_before' = nodes'
    /\ perturbs' = [k \in 1..num_nodes |-> 0]
    /\ pc' = "dispatch"
    /\ UNCHANGED <<config, tasks_sorted, nodes_sorted, i, j, assignments, assign,
                   evaluation, err, draw, fluct>>

\* mutant of Aggregate: with no records the rate and the average are 0
AggregateZeroWhenEmpty ==
    /\ pc = "aggregate"
    /\ LET rs == Get(returned)
       IN  summary' = [sla_success |-> Some(SLASuccess(rs)),
                       avg_qos |-> Some(IF Len(rs) = 0 THEN 0
                                        ELSE RoundDiv(QoSSum(rs), Len(rs))),
                       sla_rate |-> Some(IF Len(rs) = 0 THEN 0
                                         ELSE RoundDiv(SLASuccess(rs) * 1000, Len(rs))),
                       total_cost |-> Some(TotalCost(rs, nodes))]
    /\ pc' = "done"
    /\ UNCHANGED <<config, nodes, tasks, scheduling, i, results, returned, err, fluct>>

\* the metrics computed from results: SLA success rate in tenths of a percent,
\* average QoS in thousandths, total virtual cost in hundredths
Aggregate ==
    /\ pc = "aggregate"
    /\ LET rs == Get(returned)
       IN  IF Len(rs) = 0
           THEN /\ summary' = [NoSummary EXCEPT !.sla_success = Some(SLASuccess(rs))]
                /\ Raise("ZeroDivisionError")
           ELSE /\ summary' = [sla_success |-> Some(SLASuccess(rs)),
                               avg_qos |-> Some(RoundDiv(QoSSum(rs), Len(rs))),
                               sla_rate |-> Some(RoundDiv(SLASuccess(rs) * 1000, Len(rs))),
                               total_cost |-> Some(TotalCost(rs, nodes))]
                /\ pc' = "done"
                /\ UNCHANGED err
    /\ UNCHANGED <<config, nodes, tasks, scheduling, i, results, returned, fluct>>

----------------------------------------------------------------------------
(* Specifications *)

Locals ==
    /\ tasks_sorted = <<>>
    /\ nodes_sorted = <<>>
    /\ i = 0
    /\ j = 0
    /\ assignments = <<>>
    /\ results = <<>>
    /\ returned = None
    /\ summary = NoSummary
    /\ err = "none"
    /\ draw = None
    /\ fluct = 0

\* the simulate block, run with the sidebar's values.  The sliders offer 3..10
\* nodes and 3..15 tasks and the selectbox the four algorithms; the counts
\* are taken from 0 and the algorithm from one value more, as the code below
\* the sidebar does not depend on the widgets' ranges
Init ==
    /\ entry = "app"
    /\ pc = "start"
    /\ algorithm \in Algorithms \cup {Unrecognized}
    /\ num_nodes \in 0..MaxAppNodes
    /\ num_tasks \in 0..MaxAppTasks
    /\ nodes = <<>>
    /\ tasks = <<>>
    /\ nodes_before = <<>>
    /\ perturbs = <<>>
    /\ assign = None
    /\ Locals

Next == Simulate \/ Schedule \/ CallEvaluate \/ EvaluateStep \/ EvaluateReturn \/ Aggregate

Spec == Init /\ [][Next]_vars

\* the node and task lists a scheduler is called on
SchedulerInputs(alg) ==
    IF alg = "Predictive QoS-Aware"
    THEN [ns : UNION {NodeLists(n, SuppliedQoSNodes) : n \in 0..MaxQoSNodes},
          ts : UNION {create_tasks(m) : m \in 0..MaxQoSTasks}]
    ELSE [ns : UNION {NodeLists(n, SuppliedNodes) : n \in 0..MaxNodes},
          ts : UNION {create_tasks(m) : m \in 0..MaxTasks}]

\* a scheduler called on supplied node and task lists
InitSched ==
    /\ entry = "sched"
    /\ pc = "dispatch"
    /\ algorithm \in Algorithms
    /\ \E in \in SchedulerInputs(algorithm) :
        /\ nodes = in.ns
        /\ tasks = in.ts
    /\ num_nodes = Len(nodes)
    /\ num_tasks = Len(tasks)
    /\ nodes_before = nodes
    /\ perturbs = [k \in 1..Len(nodes) |-> 0]
    /\ assign = None
    /\ Locals

SpecSched == InitSched /\ [][Schedule]_vars

\* the assignment lists evaluate is called on: ids of the supplied nodes and
\* tasks, and one id past each list
SuppliedAssignments ==
    LET pairs == {<<TaskId(t), NodeId(n)>> : t \in 1..(MaxEvalEntities + 1),
                                            n \in 1..(MaxEvalEntities + 1)}
    IN  UNION {Lists(len, pairs) : len \in 0..MaxAssignments}

\* evaluate called on supplied assignment, task and node lists
InitEval ==
    /\ entry = "eval"
    /\ pc = "eval_loop"
    /\ algorithm \in {"Round Robin"}
    /\ nodes \in UNION {NodeLists(n, SuppliedQoSNodes) : n \in 0..MaxEvalEntities}
    /\ tasks \in UNION {create_tasks(m) : m \in 0..MaxEvalEntities}
    /\ \E as \in SuppliedAssignments : assign = Some(as)
    /\ num_nodes = Len(nodes)
    /\ num_tasks = Len(tasks)
    /\ nodes_before = nodes
    /\ perturbs = [k \in 1..Len(nodes) |-> 0]
    /\ Locals

NextEval == EvaluateStep \/ EvaluateReturn

SpecEval == InitEval /\ [][NextEval]_vars

----------------------------------------------------------------------------
(* Properties of the schedulers *)

\* the scheduler has returned its assignment list
Scheduled == pc = "scheduled" /\ IsSome(assign)

\* node index (1-based) that position k (1-based) of a cycle over n nodes takes
Cycle(k, n) == ((k - 1) % n) + 1

\* order is the stable ascending sort of the indices of keys: a permutation,
\* keys never decreasing, equal keys in index order
IsStableAscending(order, keys) ==
    LET n == Len(keys)
    IN  /\ Len(order) = n
        /\ \A m \in 1..n : \E p \in 1..n : order[p] = m
        /\ \A p, q \in 1..n :
            p < q => \/ keys[order[p]] < keys[order[q]]
                     \/ (keys[order[p]] = keys[order[q]] /\ order[p] < order[q])

\* C1: with a non-empty node list and a non-empty task list, the assignment
\* list a scheduler returns has as many entries as there are tasks, names
\* every task id exactly once, and names only ids of nodes of the input list.
C1_OneEntryPerTask ==
    (Scheduled /\ Len(nodes_before) > 0 /\ Len(tasks) > 0) =>
        LET as == Get(assign)
        IN  /\ Len(as) = Len(tasks)
            /\ \A t \in 1..Len(tasks) :
                Cardinality({k \in 1..Len(as) : as[k][1] = tasks[t].id}) = 1
            /\ \A k \in 1..Len(as) :
                \E n \in 1..Len(nodes_before) : as[k][2] = nodes_before[n].id

C1_Witness ==
    /\ Scheduled
    /\ algorithm = "Shortest Job First"
    /\ Len(nodes_before) = 3
    /\ Len(tasks) = 4
    /\ Get(assign)[1][1] # tasks[1].id

\* C2: round_robin returns the assignments in input task order and gives the
\* task at 0-based index i the node at 0-based input index i mod k, for every
\* cost and load the nodes come with.
C2_RoundRobinCycles ==
    (algorithm = "Round Robin" /\ Len(nodes_before) > 0) =>
        /\ \A k \in 1..Len(assignments) :
            assignments[k] = <<tasks[k].id, NodeId(Cycle(k, Len(nodes_before)))>>
        /\ Scheduled => Get(assign) = assignments /\ Len(assignments) = Len(tasks)

C2_Witness ==
    /\ Scheduled
    /\ algorithm = "Round Robin"
    /\ Len(tasks) = 4
    /\ Len(nodes_before) = 3
    /\ nodes_before[1].Load > nodes_before[2].Load
    /\ nodes_before[1].Cost < nodes_before[3].Cost
    /\ Get(assign)[4][2] = NodeId(1)

\* C3: shortest_job_first takes the tasks in ascending order of workload (ties
\* in input order) and the nodes in ascending order of the load they had when
\* the call started (ties in input order), and gives the i-th task of that
\* order the node at position i mod len(nodes) of that node order; the node
\* order stays the one computed before the first placement.  With all loads 0
\* at the start the lightest task goes to the first input node and the
\* placement cycles through the nodes in input order.
C3_SnapshotOrder ==
    (algorithm = "Shortest Job First" /\ pc \in {"sjf_loop", "scheduled"}
     /\ Len(nodes_before) > 0) =>
        LET n == Len(nodes_before)
            load_at_call == [m \in 1..n |-> nodes_before[m].Load]
            workload == [m \in 1..Len(tasks) |-> tasks[m].Workload]
            task_order == [p \in 1..Len(tasks_sorted) |->
                              FirstMatch(tasks, tasks_sorted[p].id)]
        IN  /\ IsStableAscending(task_order, workload)
            /\ IsStableAscending(nodes_sorted, load_at_call)
            /\ \A k \in 1..Len(assignments) :
                assignments[k] = <<tasks_sorted[k].id, NodeId(nodes_sorted[Cycle(k, n)])>>
            /\ Scheduled => Get(assign) = assignments /\ Len(assignments) = Len(tasks)
            /\ (\A m \in 1..n : nodes_before[m].Load = 0) =>
                 /\ \A k \in 1..Len(assignments) : assignments[k][2] = NodeId(Cycle(k, n))
                 /\ Len(assignments) > 0 =>
                      \A t \in 1..Len(tasks) :
                         tasks[FirstMatch(tasks, assignments[1][1])].Workload
                            <= tasks[t].Workload

\* the loads have grown so that sorting the nodes again would give another
\* order than the one in use, and the task order is not the input order
C3_Witness ==
    /\ Scheduled
    /\ algorithm = "Shortest Job First"
    /\ Len(nodes_before) = 3
    /\ Len(tasks) = 4
    /\ nodes_sorted # <<1, 2, 3>>
    /\ nodes_sorted # NodesByLoad(nodes)
    /\ tasks_sorted # tasks

\* C4: economic takes the nodes in ascending order of cost (equal costs in
\* input order) and gives the task at 0-based input index i, in the input
\* task order, the node at position i mod len(nodes) of that order; with costs
\* [3.0, 0.5, 1.5] tasks 0, 1, 2, 3 go to the 0.5, the 1.5, the 3.0 and again
\* the 0.5 node.
C4_CostOrderCycles ==
    (algorithm = "Economic" /\ pc \in {"eco_loop", "scheduled"}
     /\ Len(nodes_before) > 0) =>
        LET n == Len(nodes_before)
            cost == [m \in 1..n |-> nodes_before[m].Cost]
        IN  /\ IsStableAscending(nodes_sorted, cost)
            /\ \A k \in 1..Len(assignments) :
                assignments[k] = <<tasks[k].id, NodeId(nodes_sorted[Cycle(k, n)])>>
            /\ Scheduled => Get(assign) = assignments /\ Len(assignments) = Len(tasks)
            /\ cost = <<300, 50, 150>> =>
                 \A k \in 1..Len(assignments) :
                    assignments[k][2] = NodeId(<<2, 3, 1, 2, 3, 1>>[k])

C4_Witness ==
    /\ Scheduled
    /\ algorithm = "Economic"
    /\ Len(tasks) = 4
    /\ [m \in 1..Len(nodes_before) |-> nodes_before[m].Cost] = <<300, 50, 150>>
    /\ Get(assign)[4] = <<TaskId(4), NodeId(2)>>

\* the workload placed on node m by the assignments as
PlacedOn(m, as) ==
    SumSeq([k \in 1..Len(as) |->
              IF as[k][2] = NodeId(m)
              THEN tasks[FirstMatch(tasks, as[k][1])].Workload ELSE 0])

\* Bandwidth * Reliability - Load of a node, times 100
QoSScore(node) == node.Bandwidth * node.Reliability - 100 * node.Load

C6_NodeInvariant ==
    \A m \in 1..Len(nodes) :
        /\ nodes[m].Load >= 0
        /\ nodes[m].CPU >= 1
        /\ nodes[m].Bandwidth >= 10
        /\ nodes[m].Reliability >= 70
        /\ nodes[m].Reliability <= 99

\* a perturbation has just drawn -10 for a node whose Bandwidth was 10
C6_Witness ==
    /\ pc = "qos_loop"
    /\ j > 0
    /\ IsSome(draw)
    /\ Get(draw).bw = -10
    /\ nodes[j].Bandwidth = 10
    /\ nodes[j].Reliability = 70
    /\ nodes[j].CPU = 1

\* C7: a scheduler called with no nodes and one or more tasks returns no
\* assignment list, places nothing, and ends with an exception.
C7_NoNodesRaises ==
    (Len(nodes_before) = 0 /\ Len(tasks) > 0) =>
        /\ assign = None
        /\ assignments = <<>>
        /\ pc # "scheduled"
        /\ ~ENABLED Schedule => pc = "error" /\ err \in {"ZeroDivisionError", "IndexError"}

C7_Witness ==
    /\ Len(nodes_before) = 0
    /\ Len(tasks) > 0
    /\ algorithm = "Predictive QoS-Aware"
    /\ pc = "error"
    /\ err = "IndexError"

----------------------------------------------------------------------------
(* Properties of the simulate block and of evaluate *)

Unresolvable(a) ==
    \/ ~\E k \in 1..Len(tasks) : tasks[k].id = a[1]
    \/ ~\E k \in 1..Len(nodes) : nodes[k].id = a[2]

\* C10: an evaluate call whose assignment list names a task id or node id
\* that is in neither list ends with an exception: it returns no record list.
C10_UnresolvableRaises ==
    (entry = "eval" /\ \E k \in 1..Len(Get(assign)) : Unresolvable(Get(assign)[k])) =>
        /\ returned = None
        /\ pc # "evaluated"
        /\ ~ENABLED NextEval => pc = "error" /\ err = "StopIteration"

\* the first assignment resolved and gave a record, the second did not
C10_Witness ==
    /\ entry = "eval"
    /\ pc = "error"
    /\ err = "StopIteration"
    /\ Len(results) = 1
    /\ Len(Get(assign)) = 2
    /\ ~Unresolvable(Get(assign)[1])
    /\ Unresolvable(Get(assign)[2])
    /\ returned = None

----------------------------------------------------------------------------
(* Properties of runs of the simulate block *)

\* C11: with no tasks and any node list, the empty one too, every scheduler
\* returns an empty assignment list without an exception and leaves every
\* node as it was, and evaluate on that list returns an empty record list
\* without an exception.
C11_NoTasksNoEffect ==
    (num_tasks = 0 /\ pc # "start") =>
        /\ nodes = nodes_before
        /\ assignments = <<>>
        /\ IsSome(assign) => Get(assign) = <<>>
        /\ IsSome(returned) => Get(returned) = <<>>
        /\ pc = "error" => IsSome(assign) /\ IsSome(returned)
        /\ ~ENABLED Next => IsSome(assign) /\ IsSome(returned)

C11_Witness ==
    /\ num_tasks = 0
    /\ num_nodes = 2
    /\ algorithm = "Predictive QoS-Aware"
    /\ assign = Some(<<>>)
    /\ returned = Some(<<>>)
    /\ nodes = nodes_before
    /\ Len(nodes) = 2

----------------------------------------------------------------------------
(* Frame properties of the schedulers *)

\* the fields of the nodes that no scheduler writes, and for the three
\* schedulers without perturbation the fields only predictive_qos writes,
\* are those of the list the call started with, position by position
SchedulerFrame ==
    /\ Len(nodes) = Len(nodes_before)
    /\ \A m \in 1..Len(nodes) :
        /\ nodes[m].id = nodes_before[m].id
        /\ nodes[m].Memory = nodes_before[m].Memory
        /\ nodes[m].Cost = nodes_before[m].Cost
        /\ algorithm # "Predictive QoS-Aware" =>
             /\ nodes[m].CPU = nodes_before[m].CPU
             /\ nodes[m].Bandwidth = nodes_before[m].Bandwidth
             /\ nodes[m].Reliability = nodes_before[m].Reliability

\* C12: round_robin, shortest_job_first and economic change only the Load of
\* nodes: id, CPU, Memory, Bandwidth, Reliability and Cost stay as they were,
\* and the caller's node list and task list keep their order; no scheduler
\* changes id, Memory or Cost.
C12_OnlyLoadChanges == []SchedulerFrame /\ [][tasks' = tasks]_vars

\* shortest_job_first has sorted both copies into another order and placed
\* the tasks
C12_Witness ==
    /\ Scheduled
    /\ algorithm = "Shortest Job First"
    /\ nodes_sorted # [p \in 1..Len(nodes) |-> p]
    /\ tasks_sorted # tasks
    /\ \E m \in 1..Len(nodes) : nodes[m].Load # nodes_before[m].Load

\* predictive_qos has changed CPU, Bandwidth or Reliability of a node
C12_PredictiveDrift ==
    /\ algorithm = "Predictive QoS-Aware"
    /\ \E m \in 1..Len(nodes) :
        \/ nodes[m].CPU # nodes_before[m].CPU
        \/ nodes[m].Bandwidth # nodes_before[m].Bandwidth
        \/ nodes[m].Reliability # nodes_before[m].Reliability

----------------------------------------------------------------------------
(* Properties of evaluate's records *)

\* the k-th record names the task and the node of the k-th assignment, and
\* the returned list has one record per assignment
RecordsFollowAssignments ==
    IsSome(assign) =>
        /\ Len(results) <= Len(Get(assign))
        /\ \A k \in 1..Len(results) :
            /\ results[k].Task = Get(assign)[k][1]
            /\ results[k].Node = Get(assign)[k][2]
        /\ IsSome(returned) =>
            /\ Get(returned) = results
            /\ Len(Get(returned)) = Len(Get(assign))

\* C13: evaluate returns exactly one record per assignment, in the order of
\* the assignments (record k carries the task id and node id of assignment
\* k), and leaves every field of the nodes and of the tasks unchanged.
C13_OneRecordPerAssignment ==
    /\ []RecordsFollowAssignments
    /\ [][pc = "eval_loop" => nodes' = nodes /\ tasks' = tasks]_vars

\* evaluate has returned two records for two different tasks on two
\* different nodes
C13_Witness ==
    /\ IsSome(returned)
    /\ Len(Get(returned)) = 2
    /\ Get(returned)[1].Task # Get(returned)[2].Task
    /\ Get(returned)[1].Node # Get(returned)[2].Node
    /\ Get(returned)[1].Task = Get(assign)[1][1]
    /\ Get(returned)[2].Node = Get(assign)[2][2]

\* the node and the task a record names, as evaluate's two searches find
\* them in the lists at the time of the evaluation
RecordNode(r) == nodes[FirstMatch(nodes, r.Node)]

RecordTask(r) == tasks[FirstMatch(tasks, r.Task)]

\* C14: a record's SLA flag is true exactly when Workload / CPU <= SLA_Time,
\* that is Workload <= SLA_Time * CPU, with the CPU the node has when
\* evaluate runs; the division is never by zero because CPU >= 1.
C14_SLAFlag ==
    \A k \in 1..Len(results) :
        /\ RecordNode(results[k]).CPU >= 1
        /\ results[k].SLAMet <=>
             (RecordTask(results[k]).Workload
                <= RecordTask(results[k]).SLA_Time * RecordNode(results[k]).CPU)
        /\ results[k].ExecTime
             = RoundDiv(RecordTask(results[k]).Workload * 100, RecordNode(results[k]).CPU)

\* one record misses its SLA on a node whose CPU predictive_qos has lowered
\* since the start, and another one meets it with no time to spare
C14_Witness ==
    /\ IsSome(returned)
    /\ \E k \in 1..Len(results) :
        /\ ~results[k].SLAMet
        /\ RecordNode(results[k]).CPU
             < nodes_before[FirstMatch(nodes, results[k].Node)].CPU
    /\ \E k \in 1..Len(results) :
        /\ results[k].SLAMet
        /\ RecordTask(results[k]).Workload
             = RecordTask(results[k]).SLA_Time * RecordNode(results[k]).CPU

\* C15: the reliability in a record is the one the node has when evaluate
\* runs, its value after the whole scheduler phase, not the one it had when
\* the task was placed; so all records naming one node carry the same
\* reliability.
C15_ReliabilityAtEvaluation ==
    /\ \A k \in 1..Len(results) :
        results[k].Reliability = RecordNode(results[k]).Reliability
    /\ \A k, m \in 1..Len(results) :
        results[k].Node = results[m].Node =>
            results[k].Reliability = results[m].Reliability

\* predictive_qos placed two tasks on one node and lowered the node's
\* reliability between the two placements; both records carry the lowered
\* value
C15_Witness ==
    /\ algorithm = "Predictive QoS-Aware"
    /\ num_nodes = 1
    /\ IsSome(returned)
    /\ Len(results) = 2
    /\ results[1].Node = results[2].Node
    /\ Get(draw).rel = -1
    /\ results[1].Reliability = nodes_before[1].Reliability - 1
    /\ results[2].Reliability = results[1].Reliability

----------------------------------------------------------------------------
(* Cost of the assignments *)

\* the sum, over the assignments as, of the Cost of the node of ns that the
\* assignment names
AssignmentCost(as, ns) ==
    SumSeq([k \in 1..Len(as) |-> ns[FirstMatch(ns, as[k][2])].Cost])

\* the lowest Cost of a node of ns
LowestCost(ns) ==
    CHOOSE c \in {ns[m].Cost : m \in 1..Len(ns)} :
        \A m \in 1..Len(ns) : c <= ns[m].Cost

\* C16: the total cost of the assignment economic returns is the least total
\* cost of any assignment of the tasks to the nodes, which is the cost of
\* placing every task on a node of lowest Cost.
C16_EconomicMinimizesCost ==
    (Scheduled /\ algorithm = "Economic" /\ Len(nodes) > 0) =>
        AssignmentCost(Get(assign), nodes) = Len(tasks) * LowestCost(nodes)

----------------------------------------------------------------------------
(* Generation *)

\* C17: for n >= 1, create_nodes(n) returns n nodes with the ids Node-1 to
\* Node-n, pairwise distinct, CPU in 2..10, Memory in 8..32, Bandwidth in
\* 50..150, Reliability in 0.85..0.99, Cost in 0.5..3.0 and Load 0.
C17_GeneratedNodes ==
    (pc = "dispatch" /\ entry = "app" /\ num_nodes >= 1) =>
        /\ Len(nodes) = num_nodes
        /\ \A k \in 1..Len(nodes) :
            /\ nodes[k].id = NodeId(k)
            /\ nodes[k].CPU \in CPURange
            /\ nodes[k].Memory \in MemoryRange
            /\ nodes[k].Bandwidth \in BandwidthRange
            /\ nodes[k].Reliability \in ReliabilityRange
            /\ nodes[k].Cost \in CostRange
            /\ nodes[k].Load = 0
        /\ \A k, m \in 1..Len(nodes) : k # m => nodes[k].id # nodes[m].id

\* two nodes have been generated, one from the low and one from the high end
\* of the ranges
C17_Witness ==
    /\ pc = "dispatch"
    /\ entry = "app"
    /\ num_nodes = 2
    /\ Len(nodes) = 2
    /\ nodes[1].id = NodeId(1) /\ nodes[1].CPU = 2 /\ nodes[1].Cost = 300
    /\ nodes[2].id = NodeId(2) /\ nodes[2].CPU = 10 /\ nodes[2].Cost = 50

----------------------------------------------------------------------------
(* Loads and task counts *)

\* every load at the start of the call was 0
StartedIdle == \A m \in 1..Len(nodes_before) : nodes_before[m].Load = 0

\* after a run from loads 0 every load is the workload placed on the node,
\* and the loads add up to the workloads of all tasks
LoadsAreWorkloads ==
    (Scheduled /\ StartedIdle) =>
        /\ \A m \in 1..Len(nodes) : nodes[m].Load = PlacedOn(m, Get(assign))
        /\ SumSeq([m \in 1..Len(nodes) |-> nodes[m].Load])
             = SumSeq([k \in 1..Len(tasks) |-> tasks[k].Workload])

\* C18: under each of the four schedulers a node's load never decreases from
\* one step to the next, and after a run that starts with every load 0 each
\* node's load is the sum of the workloads of the tasks assigned to it in the
\* returned list, so the loads add up to the sum of all workloads.
C18_LoadAccumulates ==
    /\ [][\A m \in 1..Len(nodes) : nodes'[m].Load >= nodes[m].Load]_vars
    /\ []LoadsAreWorkloads

\* round_robin has placed four tasks on three idle nodes, two of them, of
\* different workloads, on the first node
C18_Witness ==
    /\ Scheduled
    /\ algorithm = "Round Robin"
    /\ StartedIdle
    /\ Len(nodes) = 3
    /\ Len(tasks) = 4
    /\ tasks[1].Workload # tasks[4].Workload
    /\ nodes[1].Load = tasks[1].Workload + tasks[4].Workload
    /\ nodes[2].Load = tasks[2].Workload

\* predictive_qos has placed two tasks on one of two idle nodes
C18_PredictiveStacks ==
    /\ Scheduled
    /\ algorithm = "Predictive QoS-Aware"
    /\ StartedIdle
    /\ Len(nodes) = 2
    /\ Len(tasks) = 2
    /\ \E m \in 1..2 : nodes[m].Load = tasks[1].Workload + tasks[2].Workload

\* the number of the assignments as that name node m
TaskCount(m, as) == Cardinality({k \in 1..Len(as) : as[k][2] = NodeId(m)})

\* C19: under round_robin, shortest_job_first and economic with k >= 1 nodes
\* and m tasks, after every placement the numbers of tasks on any two nodes
\* differ by at most 1, and at the end every node has floor(m/k) or
\* ceil(m/k) tasks.
C19_EvenSpread ==
    (algorithm \in {"Round Robin", "Shortest Job First", "Economic"}
       /\ Len(nodes) >= 1) =>
        /\ \A a, b \in 1..Len(nodes) :
            TaskCount(a, assignments) - TaskCount(b, assignments) <= 1
        /\ Scheduled =>
            \A a \in 1..Len(nodes) :
                TaskCount(a, Get(assign))
                  \in { Len(tasks) \div Len(nodes),
                        (Len(tasks) + Len(nodes) - 1) \div Len(nodes) }

\* economic has spread four tasks over three nodes: two on the cheapest
\* node, which is not the first of the list, one on each other node
C19_Witness ==
    /\ Scheduled
    /\ algorithm = "Economic"
    /\ Len(nodes) = 3
    /\ Len(tasks) = 4
    /\ \E a \in 2..3 :
        /\ TaskCount(a, Get(assign)) = 2
        /\ \A b \in 1..3 : b # a =>
            /\ TaskCount(b, Get(assign)) = 1
            /\ nodes[a].Cost <= nodes[b].Cost

\* predictive_qos has placed both tasks on one of two nodes and none on the
\* other
C19_PredictiveUneven ==
    /\ Scheduled
    /\ algorithm = "Predictive QoS-Aware"
    /\ Len(nodes) = 2
    /\ \E a, b \in 1..2 :
        /\ TaskCount(a, Get(assign)) = 2
        /\ TaskCount(b, Get(assign)) = 0

----------------------------------------------------------------------------
(* Comparison of the schedulers on one input *)

\* the list a scheduler has returned step by step is the list its function
\* gives for the lists the call started with
ReturnsItsList ==
    (Scheduled /\ Len(nodes) >= 1) =>
        /\ algorithm = "Round Robin" => Get(assign) = round_robin(nodes_before, tasks)
        /\ algorithm = "Shortest Job First" =>
             Get(assign) = shortest_job_first(nodes_before, tasks)
        /\ algorithm = "Economic" => Get(assign) = economic(nodes_before, tasks)

\* C20: on one node list with every load 0 and one task list, the total cost
\* of the assignment of economic is at most the total cost of the assignment
\* of round_robin and at most that of shortest_job_first.
C20_EconomicNotDearer ==
    /\ ReturnsItsList
    /\ (Scheduled /\ algorithm = "Economic" /\ StartedIdle /\ Len(nodes) >= 1) =>
        /\ AssignmentCost(Get(assign), nodes)
             <= AssignmentCost(round_robin(nodes_before, tasks), nodes)
        /\ AssignmentCost(Get(assign), nodes)
             <= AssignmentCost(shortest_job_first(nodes_before, tasks), nodes)

\* economic has returned an assignment of three tasks to two idle nodes of
\* different Cost that is cheaper than those of round_robin and
\* shortest_job_first on the same lists
C20_Witness ==
    /\ Scheduled
    /\ algorithm = "Economic"
    /\ StartedIdle
    /\ Len(nodes) = 2
    /\ Len(tasks) = 3
    /\ nodes[1].Cost > nodes[2].Cost
    /\ AssignmentCost(Get(assign), nodes)
         < AssignmentCost(round_robin(nodes_before, tasks), nodes)
    /\ AssignmentCost(Get(assign), nodes)
         < AssignmentCost(shortest_job_first(nodes_before, tasks), nodes)

====
